---- MODULE Spec2Model ----
(***************************************************************************)
(* Model of models/joint.py: the JointSourceTarget encoder and decoder.    *)
(* Tensors are modelled by their shapes; attention masks by their entries  *)
(* (0 or -inf); the layers (fairseq TransformerDecoderLayer) by the        *)
(* arguments they are called with, the keys they cache in the incremental  *)
(* state and the keys each query row may attend to.                        *)
(***************************************************************************)
EXTENDS Integers, Sequences, FiniteSets, TLC

\* ---------------------------------------------------------------- bounds
MaxTgtLen == 3      \* longest target sequence / generation session
SrcLen    == 2      \* length of the source batch
MaxLayers == 1      \* most source-only, target-only and legacy layers
MaxShared == 2      \* most shared transformer layers
MaxKernel == 4      \* largest kernel size of a mask requested directly
MaxDim    == 4      \* largest side of a mask requested directly
EmbedDim  == 2      \* embedding dimension (decoder_embed_dim)
VocabSize == 5      \* len(dictionary)
MaxRank   == 4      \* most dimensions the language embedding is followed to

BatchSizes   == {2}
Devices      == {"cpu", "cuda"}
\* kernel size of the first shared layer; each next layer's is one larger
KernelStarts == {1}

\* ------------------------------------------------------------ python None
None == [isNone |-> TRUE]
IsNone(v) == "isNone" \in DOMAIN v

Min(a, b) == IF a < b THEN a ELSE b
Max(a, b) == IF a > b THEN a ELSE b

\* ------------------------------------------------------------ mask tensors
\* float('-inf') as written by utils.fill_with_neg_inf; 0 is the other entry
NegInf == -1

\* the indices <<i, j>> of an r x c tensor
Index(r, c) == (0 .. r - 1) \X (0 .. c - 1)

\* an r x c tensor with the entries at
Matrix(r, c, at) == [rows |-> r, cols |-> c, at |-> at]

\* utils.fill_with_neg_inf(tensor.new(r, c))
FillWithNegInf(r, c) == Matrix(r, c, [p \in Index(r, c) |-> NegInf])

\* torch.triu(m, d): keeps the entries with j - i >= d, zeroes the others
Triu(m, d) ==
    Matrix(m.rows, m.cols,
           [p \in Index(m.rows, m.cols) |->
               IF p[2] - p[1] >= d THEN m.at[p] ELSE 0])

\* torch.tril(m, d): keeps the entries with j - i <= d, zeroes the others
TrilOffByOne(m, d) ==
    Matrix(m.rows, m.cols,
           [p \in Index(m.rows, m.cols) |->
               IF p[2] - p[1] <= d + 1 THEN m.at[p] ELSE 0])
Tril(m, d) ==
    Matrix(m.rows, m.cols,
           [p \in Index(m.rows, m.cols) |->
               IF p[2] - p[1] <= d THEN m.at[p] ELSE 0])

\* float addition on {0, -inf}
AddInf(a, b) == IF a = NegInf \/ b = NegInf THEN NegInf ELSE a + b

\* mask1 + mask2
MatAdd(a, b) ==
    Matrix(a.rows, a.cols,
           [p \in Index(a.rows, a.cols) |-> AddInf(a.at[p], b.at[p])])

\* m[:r, :c]
Slice(m, r, c) ==
    Matrix(Min(r, m.rows), Min(c, m.cols),
           [p \in Index(Min(r, m.rows), Min(c, m.cols)) |-> m.at[p]])

\* torch.cat((a, b), dim=1)
CatCols(a, b) ==
    Matrix(a.rows, a.cols + b.cols,
           [p \in Index(a.rows, a.cols + b.cols) |->
               IF p[2] < a.cols THEN a.at[p]
               ELSE b.at[<<p[1], p[2] - a.cols>>]])

\* tensor.new_zeros((r, c))
NewZeros(r, c) == Matrix(r, c, [p \in Index(r, c) |-> 0])

\* JointSourceTargetDecoder.buffered_future_mask: fm is the _future_mask
\* attribute ([has |-> FALSE] while the attribute does not exist), dim and dev
\* are tensor.size(0) and tensor.device.  Returns the attribute after the call
\* and the mask returned.
BufferedFutureMaskResized(fm, dim, dev) ==
    LET fm1 == IF ~fm.has \/ fm.device # dev
               THEN [has |-> TRUE, device |-> dev,
                     mask |-> Triu(FillWithNegInf(dim, dim), 1)]
               ELSE fm
        fm2 == IF fm1.mask.rows # dim
               THEN [fm1 EXCEPT !.mask = Triu(FillWithNegInf(dim, dim), 1)]
               ELSE fm1
    IN  [fm |-> fm2, ret |-> Slice(fm2.mask, dim, dim)]
BufferedFutureMaskNoRegrow(fm, dim, dev) ==
    LET fm1 == IF ~fm.has \/ fm.device # dev
               THEN [has |-> TRUE, device |-> dev,
                     mask |-> Triu(FillWithNegInf(dim, dim), 1)]
               ELSE fm
    IN  [fm |-> fm1, ret |-> Slice(fm1.mask, dim, dim)]
BufferedFutureMask(fm, dim, dev) ==
    LET fm1 == IF ~fm.has \/ fm.device # dev
               THEN [has |-> TRUE, device |-> dev,
                     mask |-> Triu(FillWithNegInf(dim, dim), 1)]
               ELSE fm
        fm2 == IF fm1.mask.rows < dim
               THEN [fm1 EXCEPT !.mask = Triu(FillWithNegInf(dim, dim), 1)]
               ELSE fm1
    IN  [fm |-> fm2, ret |-> Slice(fm2.mask, dim, dim)]

\* mask[0, -kernel_size:] = 0 on a 1 x cols mask: python's slice start (-0 is
\* 0, the start of the row)
SliceStart(kernel_size, cols) ==
    IF kernel_size = 0 THEN 0 ELSE Max(cols - kernel_size, 0)

\* diag_u, diag_l of the non-causal window (line 502)
DiagsSymmetric(kernel_size) ==
    <<(kernel_size + 1) \div 2, (kernel_size + 1) \div 2>>
Diags(kernel_size) ==
    IF kernel_size % 2 = 1
    THEN <<(kernel_size + 1) \div 2, (kernel_size + 1) \div 2>>
    ELSE <<kernel_size \div 2, kernel_size \div 2 + 1>>

\* JointSourceTargetDecoder.local_mask; tgt_len = 0 stands for tgt_len=None
LocalMask(rows, kernel_size, causal, tgt_len) ==
    LET cols == IF tgt_len = 0 THEN rows ELSE tgt_len
        d == IF causal THEN <<1, kernel_size>> ELSE Diags(kernel_size)
    IN  IF causal /\ rows = 1
        THEN Matrix(1, cols,
                    [p \in Index(1, cols) |->
                        IF p[2] >= SliceStart(kernel_size, cols) THEN 0
                        ELSE NegInf])
        ELSE MatAdd(Triu(FillWithNegInf(rows, cols), d[1]),
                    Tril(FillWithNegInf(rows, cols), 0 - d[2]))

\* ------------------------------------------------------------ configuration
VARIABLES
    cfg,                 \* the decoder: the attributes forward reads
    encoder_out,         \* the encoder's last result, None before the first
    incremental_state,   \* the caller's mapping of one generation session
    ntok,                \* target tokens of the session so far
    future_mask,         \* the decoder's _future_mask attribute
    embed_language,      \* shape of the decoder's language embedding, or None
    enc_embed_language,  \* shape of the encoder's language embedding, or None
    last                 \* what the last call did and returned

vars == <<cfg, encoder_out, incremental_state, ntok, future_mask,
          embed_language, enc_embed_language, last>>

\* kernel-size lists of length n, growing with the layer index as the lists
\* of the architectures do (a list is held in a record, so that it can be told
\* from None); nothing makes the list as long as the shared layers are many
KernelLists(n) == {[list |-> [i \in 1 .. n |-> k + i - 1]] : k \in KernelStarts}

\* LanguageEmbedding(embedding_dim), lines 737-741: the def statement has no
\* colon and its block ends with a stray brace, so the file binds no such
\* name (as it stands it does not compile at all).  Evaluating the call
\* raises NameError, and no parameter is made
LanguageEmbedding(embedding_dim) ==
    [raised |-> TRUE, error |-> "NameError", embedding_dim |-> embedding_dim]

\* the attributes of args the constructors read that the model follows;
\* transformer_kernel_size_list is read with getattr and may be None
ConstructorArgs(langs, cutoffs, shares) ==
    { [language_embeddings |-> lg, adaptive_softmax_cutoff |-> ac,
       share_decoder_input_output_embed |-> sh, decoder_layers |-> nl,
       transformer_kernel_size_list |-> kl] :
        lg \in langs, ac \in cutoffs, sh \in shares, nl \in 0 .. MaxLayers,
        kl \in {None} \cup UNION {KernelLists(n) : n \in 0 .. MaxShared} }

\* JointSourceTargetDecoder.__init__ (lines 245-298): line 269 raises when
\* args.language_embeddings is set.  Otherwise the decoder has the legacy
\* layers, the kernel-size list of line 249, no language embedding and its
\* output projection, and none of the attributes mixed_attention,
\* interleaved, source_layers, target_layers and transformer_layers that
\* forward reads: assigned is FALSE, and the values the record gives them
\* stand for nothing
DecoderInit(args) ==
    [raised |-> args.language_embeddings
                  /\ LanguageEmbedding(EmbedDim).raised,
     decoder |->
        [assigned |-> FALSE,
         mixed_attention |-> FALSE, interleaved |-> FALSE,
         source_layers |-> 0, target_layers |-> 0,
         source_layer_returns |-> "tuple", transformer_layers |-> 0,
         layers |-> args.decoder_layers,
         transformer_kernel_size_list |-> args.transformer_kernel_size_list,
         language_embeddings |-> args.language_embeddings,
         embed_language |-> None,
         adaptive_softmax_cutoff |-> args.adaptive_softmax_cutoff,
         share_decoder_input_output_embed |->
             args.share_decoder_input_output_embed]]

\* a decoder on which the caller has assigned, after construction, the
\* attributes forward reads and __init__ leaves out: mixed_attention,
\* interleaved and the three layer lists (by their lengths), and with
\* embed_language a parameter of embed_dim entries in place of None.
\* Nothing in the repository builds the source-only layers, and forward uses
\* their result both ways: line 371 unpacks a pair, line 391 binds one value.
\* source_layer_returns is what they return: "tuple", (x, attn) as a decoder
\* layer does, or "tensor", x as an encoder layer does
ConfigsWith(langs, cutoffs, shares) ==
    { [assigned |-> TRUE,
       mixed_attention |-> m, interleaved |-> il,
       source_layers |-> ns, target_layers |-> nt,
       source_layer_returns |-> sr,
       transformer_layers |-> nsh, layers |-> nl,
       transformer_kernel_size_list |-> kl,
       language_embeddings |-> FALSE,
       embed_language |-> IF lg THEN [shape |-> <<EmbedDim>>] ELSE None,
       adaptive_softmax_cutoff |-> ac,
       share_decoder_input_output_embed |-> sh] :
        m \in BOOLEAN, il \in BOOLEAN,
        ns \in 0 .. MaxLayers, nt \in 0 .. MaxLayers,
        nsh \in 0 .. MaxShared, nl \in 0 .. MaxLayers,
        kl \in {None} \cup UNION {KernelLists(n) : n \in 0 .. MaxShared},
        lg \in langs, ac \in cutoffs, sh \in shares,
        sr \in {"tuple", "tensor"} }

\* one configuration per decoder: without source-only layers what they would
\* return is left at "tuple"
Canonical(c) == c.source_layers = 0 => c.source_layer_returns = "tuple"

\* self.adaptive_softmax is not None (lines 277-291)
HasAdaptiveSoftmax(c) == c.adaptive_softmax_cutoff

\* the decoder has the attribute embed_out (lines 292-294, the elif of 282)
HasEmbedOutIfUnshared(c) == ~c.share_decoder_input_output_embed
HasEmbedOut(c) ==
    ~c.adaptive_softmax_cutoff /\ ~c.share_decoder_input_output_embed

\* lines 465-470: what forward projects the features with; without adaptive
\* softmax and without sharing it reads self.embed_out
Projection(c) ==
    IF HasAdaptiveSoftmax(c) THEN "adaptive_softmax"
    ELSE IF c.share_decoder_input_output_embed THEN "embed_tokens.weight"
    ELSE "embed_out"

\* ------------------------------------------------------------ encoder
\* source batches: left-padded rows, the first (longest) row unpadded
PaddedBatch(b, s, pads) ==
    Matrix(b, s, [p \in Index(b, s) |->
                    IF p[2] < pads[p[1] + 1] THEN "pad" ELSE "tok"])
SrcTokenInputs ==
    UNION { { PaddedBatch(b, s, pads) :
                pads \in {q \in [1 .. b -> 0 .. s - 1] : q[1] = 0} } :
            b \in BatchSizes, s \in {SrcLen} }

\* Tensor.unsqueeze_(1) on a shape
Unsqueeze1(shape) == <<shape[1], 1>> \o SubSeq(shape, 2, Len(shape))

\* x += y is defined: y broadcasts to the shape of x
BroadcastsInto(y, x) ==
    /\ Len(y) <= Len(x)
    /\ \A d \in 1 .. Len(y) :
          y[d] = 1 \/ y[d] = x[Len(x) - Len(y) + d]

\* the language-embedding step of both forwards (lines 188-190, 342-344):
\* the parameter after the call and whether the step raises.  embed_language
\* is a leaf parameter that requires grad: while gradients are recorded
\* (grad) unsqueeze_ raises RuntimeError and leaves it as it was; under
\* no_grad it reshapes the parameter in place, and then the addition raises
\* unless the new shape broadcasts
LanguageStep(lang, xshape, grad) ==
    IF IsNone(lang)
    THEN [lang |-> lang, raised |-> FALSE]
    ELSE IF grad
    THEN [lang |-> lang, raised |-> TRUE]
    ELSE [lang |-> [shape |-> Unsqueeze1(lang.shape)],
          raised |-> ~BroadcastsInto(Unsqueeze1(lang.shape), xshape)]

\* the gradient modes that make a difference to a forward: without a
\* language embedding both do the same
GradModes(lang) == IF IsNone(lang) THEN {FALSE} ELSE BOOLEAN

\* JointSourceTargetEncoder.reorder_encoder_out (lines 206-223):
\* index_select by new_order along the batch dimension of encoder_out and,
\* when there is one, of the padding mask (which stays a mask when no entry
\* of the rows selected is true)
ReorderEncoderOutResult(enc, new_order) ==
    [batch |-> Len(new_order), src_len |-> enc.src_len,
     encoder_padding_mask |->
        IF IsNone(enc.encoder_padding_mask) THEN None
        ELSE Matrix(Len(new_order), enc.src_len,
                    [p \in Index(Len(new_order), enc.src_len) |->
                        enc.encoder_padding_mask.at[
                            <<new_order[p[1] + 1], p[2]>>]])]

\* src_tokens.eq(self.padding_idx), None when no entry is true
EncoderPaddingMask(src_tokens) ==
    IF \E p \in DOMAIN src_tokens.at : src_tokens.at[p] = "pad"
    THEN Matrix(src_tokens.rows, src_tokens.cols,
                [p \in DOMAIN src_tokens.at |-> src_tokens.at[p] = "pad"])
    ELSE None

\* JointSourceTargetEncoder.forward
EncoderForwardResult(src_tokens) ==
    [batch |-> src_tokens.rows, src_len |-> src_tokens.cols,
     encoder_padding_mask |-> EncoderPaddingMask(src_tokens)]

\* ------------------------------------------------------------ layer calls
\* keys of the rows of the source stream, and of the target rows of one call
\* (all of them, or the last one when incremental_state is given, line 328)
SourceKeys(src_len) == [j \in 1 .. src_len |-> <<"s", j - 1>>]
TargetKeys(incr, tgt_len) ==
    IF incr THEN << <<"t", tgt_len - 1>> >>
    ELSE [j \in 1 .. tgt_len |-> <<"t", j - 1>>]

\* the keys a layer has cached in a mapping
Cached(st, layer) == IF layer \in DOMAIN st THEN st[layer] ELSE <<>>

\* the keys each query row may attend to under an additive mask
Visible(mask, keys, rows) ==
    [r \in 0 .. rows - 1 |->
        {keys[j] : j \in {q \in 1 .. Len(keys) :
                            IsNone(mask) \/ mask.at[<<r, q - 1>>] = 0}}]

\* the masks fit the queries and the keys of the call
ShapesFit(mask, pad, keys, rows) ==
    /\ IsNone(mask) \/ (mask.rows = rows /\ mask.cols = Len(keys))
    /\ IsNone(pad) \/ pad.cols = Len(keys)

\* one call of a layer's self-attention: state is "none" (no mapping given),
\* "caller" (the caller's mapping) or "fresh" (a mapping created in forward);
\* with a mapping the layer's cached keys precede the keys of this call
LayerCall(kind, idx, stream, state, before, cur, enc, mask, pad, rows) ==
    LET keys == IF state = "none" THEN cur ELSE before \o cur
        ok   == ShapesFit(mask, pad, keys, rows)
    IN  [layer |-> <<kind, idx>>, stream |-> stream, state |-> state,
         encoder_out |-> enc, self_attn_mask |-> mask, padding_mask |-> pad,
         keys |-> keys, rows |-> rows, ok |-> ok,
         vis |-> IF ok THEN Visible(mask, keys, rows) ELSE <<>>]

\* a statement of forward that raises, in place of the call of a layer
Raises(layer, stream) ==
    [layer |-> layer, stream |-> stream, state |-> "none",
     encoder_out |-> FALSE, self_attn_mask |-> None, padding_mask |-> None,
     keys |-> <<>>, rows |-> 0, ok |-> FALSE, vis |-> <<>>]

\* the last call of the log raised
Raised(log) == log # <<>> /\ ~log[Len(log)].ok

\* self.transformer_kernel_size_list[i] raises IndexError
IndexError(i) == Raises(<<"shared", i>>, "tgt")

\* a.c the configuration, a.enc the encoder's result, a.tgt_len the columns of
\* prev_output_tokens, a.incr whether incremental_state is given, a.st the
\* mapping, a.dev the device, a.process_source line 351
Rows(a) == IF a.incr THEN 1 ELSE a.tgt_len
CallerState(a) == IF a.incr THEN "caller" ELSE "none"
\* the keys a layer finds cached in the mapping it is given
CachedIn(a, layer) == IF a.incr THEN Cached(a.st, layer) ELSE <<>>

\* a target-only layer: layer(x, None, None, incremental_state)
TargetLayerCall(a, i) ==
    LayerCall("target", i, "tgt", CallerState(a), CachedIn(a, <<"target", i>>),
              TargetKeys(a.incr, a.tgt_len), FALSE, None, None, Rows(a))

\* a source-only layer: layer(source, encoder_out['encoder_padding_mask'])
SourceLayerCall(a, i) ==
    LayerCall("source", i, "src", "none", <<>>, SourceKeys(a.enc.src_len),
              FALSE, None, a.enc.encoder_padding_mask, a.enc.src_len)

\* a legacy layer (lines 447-454)
LegacyLayerCall(a, i) ==
    LayerCall("legacy", i, "tgt", CallerState(a), CachedIn(a, <<"legacy", i>>),
              TargetKeys(a.incr, a.tgt_len), ~a.c.mixed_attention,
              None, None, Rows(a))

\* lines 377-383: the padding mask of the joint self-attention
SelfAttnPaddingMaskTargetFirst(a) ==
    LET source_padding_mask ==
            IF a.c.mixed_attention THEN a.enc.encoder_padding_mask ELSE None
    IN  IF ~IsNone(source_padding_mask)
        THEN CatCols(Matrix(source_padding_mask.rows, a.tgt_len,
                            [p \in Index(source_padding_mask.rows, a.tgt_len)
                                |-> FALSE]),
                     source_padding_mask)
        ELSE None
SelfAttnPaddingMask(a) ==
    LET source_padding_mask ==
            IF a.c.mixed_attention THEN a.enc.encoder_padding_mask ELSE None
    IN  IF ~IsNone(source_padding_mask)
        THEN CatCols(source_padding_mask,
                     Matrix(source_padding_mask.rows, a.tgt_len,
                            [p \in Index(source_padding_mask.rows, a.tgt_len)
                                |-> FALSE]))
        ELSE None

\* lines 405-410: target_mask of shared layer i
TargetMaskFullFirst(a, i, fm) ==
    IF ~a.incr THEN BufferedFutureMask(fm, Rows(a), a.dev).ret
    ELSE IF ~IsNone(a.c.transformer_kernel_size_list)
    THEN LocalMask(Rows(a), a.c.transformer_kernel_size_list.list[i + 1],
                   TRUE, a.tgt_len)
    ELSE None
TargetMask(a, i, fm) ==
    IF ~IsNone(a.c.transformer_kernel_size_list)
    THEN LocalMask(Rows(a), a.c.transformer_kernel_size_list.list[i + 1],
                   TRUE, a.tgt_len)
    ELSE IF ~a.incr THEN BufferedFutureMask(fm, Rows(a), a.dev).ret
    ELSE None

\* the _future_mask attribute after lines 405-410
FutureMaskAfter(a, fm) ==
    IF IsNone(a.c.transformer_kernel_size_list) /\ ~a.incr
    THEN BufferedFutureMask(fm, Rows(a), a.dev).fm
    ELSE fm

\* lines 412-416: self_attn_mask of the target pass
SelfAttnMaskSourceHidden(a, target_mask) ==
    IF ~IsNone(target_mask) /\ a.c.mixed_attention
    THEN CatCols(FillWithNegInf(target_mask.rows, a.enc.src_len), target_mask)
    ELSE target_mask
SelfAttnMask(a, target_mask) ==
    IF ~IsNone(target_mask) /\ a.c.mixed_attention
    THEN CatCols(NewZeros(target_mask.rows, a.enc.src_len), target_mask)
    ELSE target_mask

\* lines 418-421: the mapping the passes of a shared layer are given
SharedState(a) ==
    IF a.incr THEN "caller" ELSE IF a.process_source THEN "fresh" ELSE "none"

\* lines 419-433: the source pass of shared layer i
SourcePass(a, i) ==
    LayerCall("shared", i, "src", SharedState(a), CachedIn(a, <<"shared", i>>),
              SourceKeys(a.enc.src_len), FALSE,
              IF ~IsNone(a.c.transformer_kernel_size_list)
              THEN LocalMask(a.enc.src_len,
                             a.c.transformer_kernel_size_list.list[i + 1],
                             FALSE, 0)
              ELSE None,
              IF a.c.mixed_attention THEN a.enc.encoder_padding_mask ELSE None,
              a.enc.src_len)

\* lines 436-444: the target pass of shared layer i, on a layer that has the
\* keys before cached
TargetPassCrossAlways(a, i, before, self_attn_mask) ==
    LayerCall("shared", i, "tgt", SharedState(a), before,
              TargetKeys(a.incr, a.tgt_len), TRUE,
              self_attn_mask, SelfAttnPaddingMask(a), Rows(a))
TargetPass(a, i, before, self_attn_mask) ==
    LayerCall("shared", i, "tgt", SharedState(a), before,
              TargetKeys(a.incr, a.tgt_len), ~a.c.mixed_attention,
              self_attn_mask, SelfAttnPaddingMask(a), Rows(a))

\* lines 418-444: the source pass (if process_source) and the target pass of
\* shared layer i
SharedLayerCalls(a, i, self_attn_mask) ==
    IF a.process_source
    THEN <<SourcePass(a, i),
           TargetPass(a, i, SourcePass(a, i).keys, self_attn_mask)>>
    ELSE <<TargetPass(a, i, CachedIn(a, <<"shared", i>>), self_attn_mask)>>

\* lines 388-403: the source-only and target-only layers run inside the loop
InterleavedCallsSourceAlways(a, i) ==
    (IF a.c.interleaved /\ i < a.c.source_layers
     THEN <<SourceLayerCall(a, i)>> ELSE <<>>)
    \o (IF a.c.interleaved /\ i < a.c.target_layers
        THEN <<TargetLayerCall(a, i)>> ELSE <<>>)
InterleavedCalls(a, i) ==
    (IF a.c.interleaved /\ a.process_source /\ i < a.c.source_layers
     THEN <<SourceLayerCall(a, i)>> ELSE <<>>)
    \o (IF a.c.interleaved /\ i < a.c.target_layers
        THEN <<TargetLayerCall(a, i)>> ELSE <<>>)

\* source is not a (src_len, batch, dim) tensor in iteration i: line 391 has
\* bound it to the pair a layer returned, or line 371 to the first row of the
\* tensor a layer returned.  Its next use raises: source.size(0) of a pair at
\* line 413, the layer call of line 426 otherwise
SourceUnusable(a, i) ==
    /\ a.process_source
    /\ \/ /\ a.c.interleaved /\ i < a.c.source_layers
          /\ a.c.source_layer_returns = "tuple"
       \/ /\ ~a.c.interleaved /\ a.c.source_layers > 0
          /\ a.c.source_layer_returns = "tensor"

\* lines 387-444: the shared-layer loop from index i on, after the calls of
\* log and with the _future_mask attribute fm
RECURSIVE SharedLoop(_, _, _, _)
SharedLoop(a, i, fm, log) ==
    IF i >= a.c.transformer_layers \/ Raised(log) THEN [log |-> log, fm |-> fm]
    ELSE IF /\ ~IsNone(a.c.transformer_kernel_size_list)
            /\ i + 1 > Len(a.c.transformer_kernel_size_list.list)
    THEN [log |-> log \o InterleavedCalls(a, i) \o <<IndexError(i)>>, fm |-> fm]
    ELSE IF SourceUnusable(a, i)
    THEN [log |-> log \o InterleavedCalls(a, i)
                     \o <<Raises(<<"shared", i>>, "src")>>,
          fm |-> FutureMaskAfter(a, fm)]
    ELSE SharedLoop(a, i + 1, FutureMaskAfter(a, fm),
                    log \o InterleavedCalls(a, i)
                        \o SharedLayerCalls(a, i,
                               SelfAttnMask(a, TargetMask(a, i, fm))))

\* lines 366-375: the source-only layers run before the loop.  Of a pair
\* line 371 takes the first component.  A tensor it unpacks along its first
\* dimension: that raises unless src_len = 2, and then binds source to the
\* first row, on which the next source-only layer raises
SourceLoop(a) ==
    IF ~a.process_source \/ a.c.interleaved \/ a.c.source_layers = 0 THEN <<>>
    ELSE IF a.c.source_layer_returns = "tuple"
    THEN [i \in 1 .. a.c.source_layers |-> SourceLayerCall(a, i - 1)]
    ELSE IF a.enc.src_len # 2
    THEN <<SourceLayerCall(a, 0), Raises(<<"source", 0>>, "src")>>
    ELSE IF a.c.source_layers > 1
    THEN <<SourceLayerCall(a, 0), Raises(<<"source", 1>>, "src")>>
    ELSE <<SourceLayerCall(a, 0)>>

\* lines 355-375: the target-only and source-only layers run before the loop
SeparateCalls(a) ==
    (IF ~a.c.interleaved
     THEN [i \in 1 .. a.c.target_layers |-> TargetLayerCall(a, i - 1)]
     ELSE <<>>)
    \o SourceLoop(a)

\* lines 446-454: the legacy layers, run after the calls of shared
LegacyCalls(a, shared) ==
    [log |-> shared.log
               \o [i \in 1 .. a.c.layers |-> LegacyLayerCall(a, i - 1)],
     fm |-> shared.fm]

\* lines 355-454: every layer call of one forward, in order
AllCalls(a, fm) == LegacyCalls(a, SharedLoop(a, 0, fm, SeparateCalls(a)))

\* the mapping after the calls: each layer called with the caller's mapping
\* has stored its keys in it
StateAfterUnwritten(st, calls) == st
StateAfter(st, calls) ==
    LET written == {k \in 1 .. Len(calls) : calls[k].state = "caller"}
        ids == {calls[k].layer : k \in written}
        lastOf(id) == CHOOSE k \in written :
                        /\ calls[k].layer = id
                        /\ \A q \in written : calls[q].layer = id => q <= k
    IN  [id \in DOMAIN st \cup ids |->
            IF id \in ids THEN calls[lastOf(id)].keys ELSE st[id]]

\* line 351
ProcessSource(c, incr, st) ==
    c.mixed_attention /\ (~incr \/ DOMAIN st = {})

\* lines 456-472: shape of the first returned value, batch-major
OutShapeUnprojected(c, batch, rows) == <<batch, rows, EmbedDim>>
OutShape(c, batch, rows) ==
    <<batch, rows, IF HasAdaptiveSoftmax(c) THEN EmbedDim ELSE VocabSize>>

\* index of the first call of the log that raises, Len(log) + 1 if none does
FirstRaise(log) ==
    IF \A k \in 1 .. Len(log) : log[k].ok THEN Len(log) + 1
    ELSE CHOOSE k \in 1 .. Len(log) :
            ~log[k].ok /\ \A q \in 1 .. k - 1 : log[q].ok

\* what forward returns and leaves behind when its layer calls are all and
\* the first of them that raises is stop
ForwardResult(a, ls, all, stop) ==
    [raised |-> stop <= Len(all.log), lang |-> ls.lang, fm |-> all.fm,
     st |-> StateAfter(a.st, SubSeq(all.log, 1, Min(stop, Len(all.log)))),
     process_source |-> a.process_source,
     self_attn_padding_mask |-> IF stop <= Len(SeparateCalls(a)) THEN None
                                ELSE SelfAttnPaddingMask(a),
     log |-> SubSeq(all.log, 1, stop - 1),
     projection |-> IF stop <= Len(all.log) THEN "" ELSE Projection(a.c),
     out |-> IF stop <= Len(all.log) THEN <<>>
             ELSE OutShape(a.c, a.enc.batch, Rows(a))]

\* lines 355-475 on the arguments a
ForwardLayers(a, fm, ls, all) == ForwardResult(a, ls, all, FirstRaise(all.log))

\* lines 341-475 on the arguments a: after the language step line 351 reads
\* self.mixed_attention, and on a decoder left as constructed that raises
\* AttributeError
ForwardFrom(a, fm, ls) ==
    IF ls.raised \/ ~a.c.assigned
    THEN [raised |-> TRUE, lang |-> ls.lang, fm |-> fm, st |-> a.st,
          process_source |-> FALSE, self_attn_padding_mask |-> None,
          log |-> <<>>, projection |-> "", out |-> <<>>]
    ELSE ForwardLayers(a, fm, ls, AllCalls(a, fm))

\* JointSourceTargetDecoder.forward on prev_output_tokens of tgt_len columns,
\* with incremental_state = st if incr and None otherwise, and with gradients
\* recorded or not
Forward(c, enc, tgt_len, incr, st, fm, dev, lang, grad) ==
    ForwardFrom([c |-> c, enc |-> enc, tgt_len |-> tgt_len, incr |-> incr,
                 st |-> st, dev |-> dev,
                 process_source |-> ProcessSource(c, incr, st)],
                fm,
                LanguageStep(lang, <<enc.batch, IF incr THEN 1 ELSE tgt_len,
                                     EmbedDim>>, grad))

\* ------------------------------------------------------------ state machine
NoArgs ==
    [dim |-> 0, dev |-> "", rows |-> 0, kernel_size |-> 0, causal |-> FALSE,
     tgt_len |-> 0]

\* last: the operation called last, its arguments, what it did and returned.
\* state_before is the incremental_state argument of a forward: "none",
\* "empty" or "nonempty"; step counts the forwards of the session;
\* cached_before is the decoder's _future_mask when buffered_future_mask was
\* called; projection is what forward projected the features with
NoCall ==
    [op |-> "none", raised |-> FALSE, incr |-> FALSE, tgt_len |-> 0,
     batch |-> 0, state_before |-> "none", step |-> 0,
     process_source |-> FALSE, self_attn_padding_mask |-> None,
     log |-> <<>>, projection |-> "", out |-> <<>>, ret |-> None,
     args |-> NoArgs,
     cached_before |-> [has |-> FALSE]]

\* the state after JointSourceTargetDecoder(args, ...) for args of argset;
\* build_model constructs the encoder first from the same args, and line 164
\* raises as line 269 does.  An exception of the constructor leaves no
\* decoder: the run has ended
InitWith(argset) ==
    \E args \in argset :
      \E r \in {DecoderInit(args)} :
        /\ cfg = r.decoder
        /\ encoder_out = None
        /\ incremental_state = <<>>
        /\ ntok = 0
        /\ future_mask = [has |-> FALSE]
        /\ embed_language = None
        /\ enc_embed_language = None
        /\ last = IF r.raised
                  THEN [NoCall EXCEPT !.op = "construct", !.raised = TRUE]
                  ELSE NoCall

RankLeft(lang) == IF IsNone(lang) THEN TRUE ELSE Len(lang.shape) < MaxRank

\* an exception of the last call has ended the run
Crashed == last.raised

\* the attributes the constructor has set, which an assignment of the other
\* attributes leaves as they are
SameConstruction(c, d) ==
    /\ c.layers = d.layers
    /\ c.transformer_kernel_size_list = d.transformer_kernel_size_list
    /\ c.language_embeddings = d.language_embeddings
    /\ c.adaptive_softmax_cutoff = d.adaptive_softmax_cutoff
    /\ c.share_decoder_input_output_embed = d.share_decoder_input_output_embed

\* the caller assigns to the decoder just constructed the attributes __init__
\* leaves out (decoder.mixed_attention = ..., decoder.source_layers = ...)
\* and, with a language embedding of configs, a parameter to embed_language
\* of the decoder and of the encoder.  No code of the repository does this:
\* it is the only way to a forward that gets past line 351
AssignAttributes(configs) ==
    /\ ~Crashed
    /\ ~cfg.assigned
    /\ last.op = "none"
    /\ \E c \in configs :
        /\ Canonical(c)
        /\ SameConstruction(c, cfg)
        /\ cfg' = c
        /\ embed_language' = c.embed_language
        /\ enc_embed_language' = c.embed_language
        /\ UNCHANGED <<encoder_out, incremental_state, ntok, future_mask, last>>

\* encoder.forward(src_tokens, src_lengths), called before a generation
\* session starts; with its result the caller starts from an empty mapping
Encode ==
    /\ ~Crashed
    /\ ntok = 0
    /\ RankLeft(enc_embed_language)
    /\ \E src_tokens \in SrcTokenInputs, grad \in GradModes(enc_embed_language) :
        \E ls \in {LanguageStep(enc_embed_language,
                                <<src_tokens.rows, src_tokens.cols, EmbedDim>>,
                                grad)} :
          /\ enc_embed_language' = ls.lang
          /\ last' = [NoCall EXCEPT !.op = "encoder", !.raised = ls.raised]
          /\ IF ls.raised
             THEN UNCHANGED <<encoder_out, incremental_state>>
             ELSE /\ encoder_out' = EncoderForwardResult(src_tokens)
                  /\ incremental_state' = <<>>
          /\ UNCHANGED <<cfg, ntok, future_mask, embed_language>>

\* the orders beam search selects hypotheses with: one or two rows of the
\* batch, in any order and with repetition
OrderLengths == {1, 2}
NewOrders(batch) == UNION {[1 .. n -> 0 .. batch - 1] : n \in OrderLengths}

\* encoder.reorder_encoder_out(encoder_out, new_order), called between the
\* steps of a generation session: it rewrites the dictionary forward is given
\* at the next step (the caller reorders the tokens and the layers' buffers
\* alike; the keys the model caches do not tell the rows of a batch apart)
ReorderEncoderOut ==
    /\ ~Crashed
    /\ ~IsNone(encoder_out)
    /\ ntok > 0
    /\ \E new_order \in NewOrders(encoder_out.batch) :
        /\ encoder_out' = ReorderEncoderOutResult(encoder_out, new_order)
        /\ last' = [NoCall EXCEPT !.op = "reorder_encoder_out",
                      !.batch = Len(new_order)]
        /\ UNCHANGED <<cfg, incremental_state, ntok, future_mask,
                       embed_language, enc_embed_language>>

\* what a forward leaves in last
ForwardRecord(r, incr, tgt_len, batch, st, step) ==
    [NoCall EXCEPT !.op = "forward", !.raised = r.raised, !.incr = incr,
       !.tgt_len = tgt_len, !.batch = batch, !.step = step,
       !.state_before = IF ~incr THEN "none"
                        ELSE IF DOMAIN st = {} THEN "empty" ELSE "nonempty",
       !.process_source = r.process_source,
       !.self_attn_padding_mask = r.self_attn_padding_mask,
       !.log = r.log, !.projection = r.projection, !.out = r.out]

\* decoder.forward(input, encoder_out, incremental_state=None) on a target of
\* tgt_len tokens (full-sequence calls are made outside generation sessions)
ForwardFull ==
    \E tgt_len \in 1 .. MaxTgtLen, grad \in GradModes(embed_language) :
      /\ ~Crashed
      /\ ~IsNone(encoder_out)
      /\ ntok = 0
      /\ RankLeft(embed_language)
      /\ \E r \in {Forward(cfg, encoder_out, tgt_len, FALSE, <<>>, future_mask,
                            "cpu", embed_language, grad)} :
          /\ embed_language' = r.lang
          /\ future_mask' = r.fm
          /\ last' = ForwardRecord(r, FALSE, tgt_len, encoder_out.batch, <<>>, 0)
          /\ UNCHANGED <<cfg, encoder_out, incremental_state, ntok,
                         enc_embed_language>>

\* decoder.forward(input, encoder_out, incremental_state) on the tokens of the
\* session so far and one more, with the session's mapping
ForwardStep ==
    /\ ~Crashed
    /\ ~IsNone(encoder_out)
    /\ ntok < MaxTgtLen
    /\ RankLeft(embed_language)
    /\ \E grad \in GradModes(embed_language) :
       \E r \in {Forward(cfg, encoder_out, ntok + 1, TRUE, incremental_state,
                          future_mask, "cpu", embed_language, grad)} :
        /\ embed_language' = r.lang
        /\ future_mask' = r.fm
        /\ incremental_state' = r.st
        /\ ntok' = IF r.raised THEN ntok ELSE ntok + 1
        /\ last' = ForwardRecord(r, TRUE, ntok + 1, encoder_out.batch,
                                 incremental_state, ntok + 1)
        /\ UNCHANGED <<cfg, encoder_out, enc_embed_language>>

\* decoder.buffered_future_mask(tensor) called directly
CallBufferedFutureMask ==
    \E dim \in 1 .. MaxDim, dev \in Devices :
      \E r \in {BufferedFutureMask(future_mask, dim, dev)} :
        /\ ~Crashed
        /\ future_mask' = r.fm
        /\ last' = [NoCall EXCEPT !.op = "buffered_future_mask", !.ret = r.ret,
                      !.args = [NoArgs EXCEPT !.dim = dim, !.dev = dev],
                      !.cached_before = future_mask]
        /\ UNCHANGED <<cfg, encoder_out, incremental_state, ntok,
                       embed_language, enc_embed_language>>

\* decoder.local_mask(tensor, kernel_size, causal, tgt_len) called directly;
\* tgt_len = 0 stands for tgt_len=None
CallLocalMask ==
    \E rows \in 1 .. MaxDim, kernel_size \in 0 .. MaxKernel,
       causal \in BOOLEAN, tgt_len \in 0 .. MaxDim :
        /\ ~Crashed
        /\ last' = [NoCall EXCEPT !.op = "local_mask",
                      !.ret = LocalMask(rows, kernel_size, causal, tgt_len),
                      !.args = [NoArgs EXCEPT !.rows = rows,
                                  !.kernel_size = kernel_size,
                                  !.causal = causal, !.tgt_len = tgt_len]]
        /\ UNCHANGED <<cfg, encoder_out, incremental_state, ntok, future_mask,
                       embed_language, enc_embed_language>>

\* the decoders build_model constructs (share_all_embeddings), without
\* language embeddings and adaptive softmax, and on them every assignment of
\* the layers
LayerArgs == ConstructorArgs({FALSE}, {FALSE}, {TRUE})
LayerConfigs == ConfigsWith({FALSE}, {FALSE}, {TRUE})
AssignLayers == AssignAttributes(LayerConfigs)
Next ==
    AssignLayers \/ Encode \/ ReorderEncoderOut \/ ForwardFull \/ ForwardStep
Init == InitWith(LayerArgs)
Spec == Init /\ [][Next]_vars

\* decoders without legacy layers
NoLegacy(argset) == {args \in argset : args.decoder_layers = 0}

\* every choice of language embeddings and output projection, on decoders of
\* shared layers only
OptionArgs == NoLegacy(ConstructorArgs(BOOLEAN, BOOLEAN, BOOLEAN))
OptionConfigs ==
    {c \in ConfigsWith(BOOLEAN, BOOLEAN, BOOLEAN) :
        /\ c.source_layers = 0 /\ c.target_layers = 0 /\ c.layers = 0
        /\ ~c.interleaved}
AssignOptions == AssignAttributes(OptionConfigs)
NextOptions ==
    AssignOptions \/ Encode \/ ReorderEncoderOut \/ ForwardFull \/ ForwardStep
InitOptions == InitWith(OptionArgs)
SpecOptions == InitOptions /\ [][NextOptions]_vars

\* decoders as constructed, without legacy layers and without a kernel-size
\* list, for the mask builders called directly
BareArgs(langs, cutoffs, shares) ==
    {args \in NoLegacy(ConstructorArgs(langs, cutoffs, shares)) :
        IsNone(args.transformer_kernel_size_list)}

\* buffered_future_mask called again and again on one decoder
InitMask == InitWith(BareArgs(BOOLEAN, BOOLEAN, BOOLEAN))
NextMask == CallBufferedFutureMask
SpecMask == InitMask /\ [][NextMask]_vars

\* local_mask called on every input
InitLocalMask == InitWith(BareArgs({FALSE}, {FALSE}, {TRUE}))
NextLocalMask == CallLocalMask
SpecLocalMask == InitLocalMask /\ [][NextLocalMask]_vars

\* decoders with up to MaxLayers + 1 source-only and target-only layers, no
\* legacy layers and no kernel-size list
DeepConfigs ==
    { [assigned |-> TRUE,
       mixed_attention |-> m, interleaved |-> il,
       source_layers |-> ns, target_layers |-> nt,
       source_layer_returns |-> sr,
       transformer_layers |-> nsh, layers |-> 0,
       transformer_kernel_size_list |-> None,
       language_embeddings |-> FALSE,
       embed_language |-> None,
       adaptive_softmax_cutoff |-> FALSE,
       share_decoder_input_output_embed |-> TRUE] :
        m \in BOOLEAN, il \in BOOLEAN,
        ns \in 0 .. MaxLayers + 1, nt \in 0 .. MaxLayers + 1,
        nsh \in 0 .. MaxShared, sr \in {"tuple", "tensor"} }
AssignDeep == AssignAttributes(DeepConfigs)
NextDeep ==
    AssignDeep \/ Encode \/ ReorderEncoderOut \/ ForwardFull \/ ForwardStep
InitDeep == InitWith(BareArgs({FALSE}, {FALSE}, {TRUE}))
SpecDeep == InitDeep /\ [][NextDeep]_vars

\* ------------------------------------------------------------ model building
\* python's list * n
RECURSIVE Repeat(_, _)
Repeat(list, n) == IF n <= 0 THEN <<>> ELSE list \o Repeat(list, n - 1)

\* lines 841-844: a one-element kernel-size list is repeated to the layer count
Expand(list, layers) == IF Len(list) = 1 THEN Repeat(list, layers) ELSE list

\* dictionaries, embedding dimensions and embedding paths of the command line;
\* a path is unset when it is None or empty
Dictionaries == {"de", "en"}
EmbedDims    == {EmbedDim, 2 * EmbedDim}
EmbedPaths   == {"None", "", "a.vec", "b.vec"}
Truthy(path) == path \notin {"None", ""}

ArchLists == UNION {KernelLists(n) : n \in 0 .. MaxShared}

\* the attributes of args that base_architecture and build_model read:
\* transformer_kernel_size_list is the list the decoder takes (line 249) and
\* forward indexes by the shared layer (lines 406, 423); language_embeddings
\* is what line 856 leaves, true with --language-embeddings
Args(el, ek, dl, dk, tl, tk, share, ed, dd, ep, dp, lang) ==
    [language_embeddings |-> lang,
     encoder_layers |-> el, encoder_kernel_size_list |-> ek,
     decoder_layers |-> dl, decoder_kernel_size_list |-> dk,
     decoder_transformer_layers |-> tl, transformer_kernel_size_list |-> tk,
     share_all_embeddings |-> share,
     share_decoder_input_output_embed |-> FALSE,
     encoder_embed_dim |-> ed, decoder_embed_dim |-> dd,
     encoder_embed_path |-> ep, decoder_embed_path |-> dp]

\* base_architecture (lines 809-858): the kernel-size lists are expanded and
\* the encoder's and the decoder's are asserted to be as long as their layers
\* are many; raised is the AssertionError, the lists are those args is left
\* with, and no other attribute modelled is changed
BaseArchitecture(args) ==
    [raised |->
        \/ Len(Expand(args.encoder_kernel_size_list, args.encoder_layers))
             # args.encoder_layers
        \/ Len(Expand(args.decoder_kernel_size_list, args.decoder_layers))
             # args.decoder_layers,
     encoder_kernel_size_list |->
        Expand(args.encoder_kernel_size_list, args.encoder_layers),
     decoder_kernel_size_list |->
        Expand(args.decoder_kernel_size_list, args.decoder_layers),
     transformer_kernel_size_list |-> args.transformer_kernel_size_list]

\* build_embedding (lines 106-114); id tells the objects built apart
BuildEmbedding(id, dictionary, embed_dim, path) ==
    [id |-> id, dictionary |-> dictionary, embedding_dim |-> embed_dim,
     loaded |-> IF Truthy(path) THEN path ELSE ""]

\* build_model left by an exception: there is no encoder and no decoder;
\* share is what args.share_decoder_input_output_embed holds at the raise
FailedWith(error, share) ==
    [raised |-> TRUE, error |-> error,
     share_decoder_input_output_embed |-> share,
     encoder |-> None, decoder |-> None]

\* an exception raised above line 129: args is as the caller gave it
Failed(error, args) == FailedWith(error, args.share_decoder_input_output_embed)

\* lines 133-135: the encoder and the decoder on their embeddings
\* (line 248 reads args.share_decoder_input_output_embed, here share)
Built(share, encoder_embed_tokens, decoder_embed_tokens) ==
    [raised |-> FALSE, error |-> "",
     share_decoder_input_output_embed |-> share,
     encoder |-> [embed_tokens |-> encoder_embed_tokens],
     decoder |-> [embed_tokens |-> decoder_embed_tokens,
                  share_input_output_embed |-> share]]

\* lines 133-135: the encoder is constructed, then the decoder; with
\* args.language_embeddings line 164 raises and build_model returns nothing,
\* after line 129 has written share to args.share_decoder_input_output_embed
Construct(args, share, encoder_embed_tokens, decoder_embed_tokens) ==
    IF args.language_embeddings
         /\ LanguageEmbedding(encoder_embed_tokens.embedding_dim).raised
    THEN FailedWith("NameError", share)
    ELSE Built(share, encoder_embed_tokens, decoder_embed_tokens)

\* lines 116-135 on the resolved args
ShareEmbeddingsOrBuildTwo(args, src_dict, tgt_dict) ==
    IF args.share_all_embeddings
    THEN IF src_dict # tgt_dict THEN Failed("ValueError", args)
         ELSE IF args.encoder_embed_dim # args.decoder_embed_dim
         THEN Failed("ValueError", args)
         ELSE IF /\ Truthy(args.decoder_embed_path)
                 /\ args.decoder_embed_path # args.encoder_embed_path
         THEN Failed("ValueError", args)
         ELSE Construct(args, TRUE,
                        BuildEmbedding(1, src_dict, args.encoder_embed_dim,
                                       args.encoder_embed_path),
                        BuildEmbedding(1, src_dict, args.encoder_embed_dim,
                                       args.encoder_embed_path))
    ELSE Construct(args, args.share_decoder_input_output_embed,
                   BuildEmbedding(1, src_dict, args.encoder_embed_dim,
                                  args.encoder_embed_path),
                   BuildEmbedding(2, tgt_dict, args.decoder_embed_dim,
                                  args.decoder_embed_path))
ShareEmbeddings(args, src_dict, tgt_dict) ==
    IF args.share_all_embeddings
    THEN IF src_dict # tgt_dict THEN Failed("ValueError", args)
         ELSE IF args.encoder_embed_dim # args.decoder_embed_dim
         THEN Failed("ValueError", args)
         ELSE IF /\ Truthy(args.decoder_embed_path)
                 /\ args.decoder_embed_path # args.encoder_embed_path
         THEN Failed("ValueError", args)
         ELSE Construct(args, TRUE,
                        BuildEmbedding(1, src_dict, args.encoder_embed_dim,
                                       args.encoder_embed_path),
                        BuildEmbedding(1, src_dict, args.encoder_embed_dim,
                                       args.encoder_embed_path))
    ELSE Failed("RuntimeError", args)

\* JointSourceTargetModel.build_model (lines 93-135)
BuildModel(args, src_dict, tgt_dict) ==
    IF BaseArchitecture(args).raised THEN Failed("AssertionError", args)
    ELSE ShareEmbeddings(args, src_dict, tgt_dict)

\* base_architecture(args) on its own, as the architecture functions call it,
\* once per run
CallBaseArchitecture ==
  /\ last.op = "none"
  /\ \E el \in 0 .. MaxShared, dl \in 0 .. MaxShared, tl \in 0 .. MaxShared,
       ek \in ArchLists, dk \in ArchLists, tk \in {None} \cup ArchLists :
      \E r \in {BaseArchitecture(Args(el, ek.list, dl, dk.list, tl, tk, TRUE,
                                      EmbedDim, EmbedDim, "None", "None",
                                      FALSE))} :
        /\ last' = [NoCall EXCEPT !.op = "base_architecture",
                      !.raised = r.raised,
                      !.args = Args(el, ek.list, dl, dk.list, tl, tk, TRUE,
                                    EmbedDim, EmbedDim, "None", "None", FALSE),
                      !.ret = r]
        /\ UNCHANGED <<cfg, encoder_out, incremental_state, ntok, future_mask,
                       embed_language, enc_embed_language>>

\* build_model(args, task), once per run, on every choice of the embedding
\* options and of --language-embeddings; the decoder's kernel-size list is as
\* long as its layers are many, the encoder's is any
CallBuildModel ==
  /\ last.op = "none"
  /\ \E el \in 0 .. MaxShared, ek \in ArchLists, share \in BOOLEAN,
       src_dict \in Dictionaries, tgt_dict \in Dictionaries,
       ed \in EmbedDims, dd \in EmbedDims,
       ep \in EmbedPaths, dp \in EmbedPaths, lang \in BOOLEAN :
      \E r \in {BuildModel(Args(el, ek.list, 0, <<>>, 0, None, share, ed, dd,
                                ep, dp, lang), src_dict, tgt_dict)} :
        /\ last' = [NoCall EXCEPT !.op = "build_model", !.raised = r.raised,
                      !.args = [args |-> Args(el, ek.list, 0, <<>>, 0, None,
                                             share, ed, dd, ep, dp, lang),
                                src_dict |-> src_dict, tgt_dict |-> tgt_dict],
                      !.ret = r]
        /\ UNCHANGED <<cfg, encoder_out, incremental_state, ntok, future_mask,
                       embed_language, enc_embed_language>>

\* an attribute of args that may not be there, and getattr(args, name, default)
Unset == [set |-> FALSE]
Set(v) == [set |-> TRUE, value |-> v]
GetAttr(attr, default) == IF attr.set THEN attr.value ELSE default

\* the defaults of the named architectures, cut to the model's sizes: 14
\* shared layers (line 897) and the list 3, 5, 7, ... of line 911
DefaultTransformerLayers == MaxShared
LocalAttentionDefault == [list |-> [i \in 1 .. MaxShared |-> 2 * i + 1]]

\* mixed_attention_iwslt_de_en (lines 879-906) on the attributes of the shared
\* layers and on language_embeddings (line 900): what args holds when it
\* returns.  encoder_layers and decoder_layers default to 0 and their lists
\* to [], which base_architecture accepts; transformer_kernel_size_list is
\* not assigned by any architecture
MixedAttentionIwsltDeEn(layers, dtk, tk, lang) ==
    [decoder_transformer_layers |-> GetAttr(layers, DefaultTransformerLayers),
     decoder_transformer_kernel_size_list |-> GetAttr(dtk, None),
     transformer_kernel_size_list |-> tk,
     language_embeddings |-> GetAttr(lang, TRUE)]

\* local_attention_iwslt_de_en (lines 909-912)
LocalAttentionIwsltDeEn(layers, dtk, tk, lang) ==
    MixedAttentionIwsltDeEn(layers, Set(GetAttr(dtk, LocalAttentionDefault)),
                            tk, lang)

\* the architecture function of a name
Architecture(name, layers, dtk, tk, lang) ==
    IF name = "local_attention_iwslt_de_en"
    THEN LocalAttentionIwsltDeEn(layers, dtk, tk, lang)
    ELSE MixedAttentionIwsltDeEn(layers, dtk, tk, lang)

\* line 249: the kernel-size list the decoder constructed from args keeps
DecoderKernelSizeList(args) == GetAttr(args.transformer_kernel_size_list, None)

\* what the decoder's constructor reads of the args an architecture has
\* resolved: no legacy layers (line 889), no adaptive softmax, no sharing
ResolvedConstructorArgs(args) ==
    [language_embeddings |-> args.language_embeddings,
     adaptive_softmax_cutoff |-> FALSE,
     share_decoder_input_output_embed |-> FALSE,
     decoder_layers |-> 0,
     transformer_kernel_size_list |-> DecoderKernelSizeList(args)]

\* the decoder constructed from the resolved args, by its kernel-size list;
\* None when the constructor raises
ConstructedDecoder(init) ==
    IF init.raised THEN None
    ELSE [transformer_kernel_size_list |->
              init.decoder.transformer_kernel_size_list]

\* a named architecture resolves args and the decoder is constructed from
\* them, once per run.  The parser leaves out of args every option not given
\* and --language-embeddings is a switch, so the command line gives Unset or
\* Set(TRUE); Set(FALSE) is a namespace made by hand
CallArchitecture ==
  /\ last.op = "none"
  /\ \E name \in {"mixed_attention_iwslt_de_en", "local_attention_iwslt_de_en"},
       layers \in {Unset} \cup {Set(n) : n \in 0 .. MaxShared},
       dtk \in {Unset, Set(None)} \cup {Set(l) : l \in ArchLists},
       tk \in {Unset, Set(None)} \cup {Set(l) : l \in ArchLists},
       lang \in {Unset, Set(TRUE), Set(FALSE)} :
      \E r \in {Architecture(name, layers, dtk, tk, lang)} :
       \E init \in {DecoderInit(ResolvedConstructorArgs(r))} :
        /\ last' = [NoCall EXCEPT !.op = "architecture",
                      !.raised = init.raised,
                      !.args = [name |-> name, decoder_transformer_layers |-> layers,
                                decoder_transformer_kernel_size_list |-> dtk,
                                transformer_kernel_size_list |-> tk,
                                language_embeddings |-> lang],
                      !.ret = [args |-> r,
                               decoder |-> ConstructedDecoder(init)]]
        /\ UNCHANGED <<cfg, encoder_out, incremental_state, ntok, future_mask,
                       embed_language, enc_embed_language>>

\* the command line resolved and the model built
InitBuild == InitWith(BareArgs({FALSE}, {FALSE}, {TRUE}))
NextBuild == CallBaseArchitecture \/ CallBuildModel \/ CallArchitecture
SpecBuild == InitBuild /\ [][NextBuild]_vars

\* ------------------------------------------------------------ claims
ForwardReturned == last.op = "forward" /\ ~last.raised

\* a forward on a decoder that has the attributes the claims speak of
\* (mixed_attention, interleaved, the layer lists); on a decoder left as
\* constructed forward raises at line 351, before any of them is used
ForwardCalled == last.op = "forward" /\ cfg.assigned

\* what decides the output at one target row: the layers the row passes
\* through and, in each, the keys it attends to and whether the encoder
\* output is attended to
RECURSIVE TargetView(_, _)
TargetView(log, r) ==
    IF log = <<>> THEN <<>>
    ELSE (IF Head(log).stream = "tgt"
          THEN <<[layer |-> Head(log).layer, vis |-> Head(log).vis[r],
                  encoder_out |-> Head(log).encoder_out]>>
          ELSE <<>>) \o TargetView(Tail(log), r)

\* the full-sequence forward on a target of tgt_len tokens, in this state
FullForward(tgt_len) ==
    Forward(cfg, encoder_out, tgt_len, FALSE, <<>>, future_mask, "cpu",
            embed_language, FALSE)

\* C1: after step t of a session, the output of the step is computed through
\* the same layers and from the same visible keys as position t of the
\* full-sequence forward on any target of T >= t tokens
IncrementalEquivalence ==
    (ForwardReturned /\ last.incr) =>
        \A T \in last.tgt_len .. MaxTgtLen :
            TargetView(FullForward(T).log, last.tgt_len - 1)
                = TargetView(last.log, 0)

\* C1, on the decoders whose forward runs shared layers only: there the two
\* modes agree
RunsUnmaskedLayer ==
    \/ cfg.layers > 0
    \/ cfg.target_layers > 0 /\ (~cfg.interleaved \/ cfg.transformer_layers > 0)
SharedLayersEquivalence ==
    (ForwardReturned /\ last.incr /\ ~RunsUnmaskedLayer) =>
        \A T \in last.tgt_len .. MaxTgtLen :
            TargetView(FullForward(T).log, last.tgt_len - 1)
                = TargetView(last.log, 0)
SharedLayersEquivalenceWitness ==
    /\ ForwardReturned /\ last.incr /\ ~RunsUnmaskedLayer
    /\ last.tgt_len = MaxTgtLen
    /\ cfg.mixed_attention /\ cfg.transformer_layers = MaxShared
    /\ ~IsNone(cfg.transformer_kernel_size_list)

\* calls of the log made on one layer and one stream
CallsOf(log, layer, stream) ==
    Cardinality({k \in 1 .. Len(log) :
                    log[k].layer = layer /\ log[k].stream = stream})

\* the condition of the claim: mixed attention, and no mapping or an empty one
SourceCondition ==
    cfg.mixed_attention /\ last.state_before \in {"none", "empty"}

\* C2: in every forward call the source stream is processed (each shared
\* layer makes a source pass, the source-only layers run) exactly when
\* mixed_attention is set and incremental_state is None or empty, and each
\* shared layer makes one target pass
SourceProcessedIff ==
    ForwardCalled =>
        /\ last.process_source = SourceCondition
        /\ (\E k \in 1 .. Len(last.log) : last.log[k].stream = "src")
              => SourceCondition
        /\ \A i \in 0 .. cfg.transformer_layers - 1 :
              /\ CallsOf(last.log, <<"shared", i>>, "src")
                    = IF SourceCondition THEN 1 ELSE 0
              /\ CallsOf(last.log, <<"shared", i>>, "tgt") = 1
        /\ (SourceCondition /\ ~cfg.interleaved) =>
              \A i \in 0 .. cfg.source_layers - 1 :
                  CallsOf(last.log, <<"source", i>>, "src") = 1

\* some layer called with the caller's mapping runs in every forward
WritesMapping ==
    \/ cfg.transformer_layers > 0
    \/ cfg.layers > 0
    \/ cfg.target_layers > 0 /\ ~cfg.interleaved

\* C3 as claimed: in a session with mixed attention the mapping is non-empty
\* after the first call, whatever the layer counts, and the source stream is
\* processed on the first call only
SourceOncePerSession ==
    (ForwardReturned /\ last.incr /\ cfg.mixed_attention) =>
        /\ incremental_state # <<>>
        /\ last.process_source = (last.step = 1)

\* C3 amended: in a session with mixed attention the source stream is
\* processed exactly by the calls that are given an empty mapping; on the
\* decoders in which a target-only, shared or legacy layer is given the
\* mapping in every call, a call that returns leaves the mapping non-empty,
\* so that of the calls that return only the first processes the source
SourceOncePerSessionIfWritten ==
    /\ (ForwardCalled /\ last.incr /\ cfg.mixed_attention) =>
          last.process_source = (last.state_before = "empty")
    /\ (ForwardReturned /\ last.incr /\ cfg.mixed_attention /\ WritesMapping) =>
          /\ incremental_state # <<>>
          /\ last.process_source = (last.step = 1)
          /\ (\E k \in 1 .. Len(last.log) : last.log[k].stream = "src")
                => last.step = 1
SourceOncePerSessionWitness ==
    /\ ForwardReturned /\ last.incr /\ cfg.mixed_attention /\ WritesMapping
    /\ last.step = MaxTgtLen /\ ~last.process_source
    /\ cfg.source_layers > 0 /\ cfg.transformer_layers > 0

\* entries of a boolean matrix that are true
TrueEntries(m) == Cardinality({p \in DOMAIN m.at : m.at[p]})

\* C8: with mixed attention and a (batch, src_len) encoder padding mask of P
\* true entries, the padding mask of the joint self-attention is
\* (batch, src_len + L): the source mask, then L all-false columns; P true
\* entries in all, in every call that returns and in every call that raises
\* after it has built the mask
PaddingMaskBuilt ==
    /\ last.op = "forward"
    /\ ~last.raised \/ ~IsNone(last.self_attn_padding_mask)
JointPaddingMask ==
    (PaddingMaskBuilt /\ cfg.mixed_attention
        /\ ~IsNone(encoder_out.encoder_padding_mask)) =>
        LET src == encoder_out.encoder_padding_mask
            m == last.self_attn_padding_mask
        IN  /\ ~IsNone(m)
            /\ m.rows = encoder_out.batch
            /\ m.cols = encoder_out.src_len + last.tgt_len
            /\ DOMAIN m.at = (0 .. m.rows - 1) \X (0 .. m.cols - 1)
            /\ \A b \in 0 .. m.rows - 1 :
                  /\ \A j \in 0 .. encoder_out.src_len - 1 :
                        m.at[<<b, j>>] = src.at[<<b, j>>]
                  /\ \A j \in encoder_out.src_len .. m.cols - 1 :
                        m.at[<<b, j>>] = FALSE
            /\ TrueEntries(m) = TrueEntries(src)
JointPaddingMaskWitness ==
    /\ ForwardReturned /\ cfg.mixed_attention /\ last.incr
    /\ last.tgt_len = MaxTgtLen
    /\ ~IsNone(encoder_out.encoder_padding_mask)
    /\ TrueEntries(last.self_attn_padding_mask) >= 1
    /\ last.self_attn_padding_mask.cols = SrcLen + MaxTgtLen

\* C9 as claimed: the first returned value is (batch, time, vocab_size) with
\* the batch and time dimensions of the prev_output_tokens passed in
OutputShapeOfInput ==
    ForwardReturned => last.out = <<last.batch, last.tgt_len, VocabSize>>

\* C9 amended: the time dimension is that of prev_output_tokens when
\* incremental_state is None and 1 otherwise; the last dimension is the
\* vocabulary size unless adaptive softmax is configured, and the output
\* embedding dimension then
OutputShape ==
    ForwardReturned =>
        last.out = <<last.batch,
                     IF last.incr THEN 1 ELSE last.tgt_len,
                     IF cfg.adaptive_softmax_cutoff THEN EmbedDim
                     ELSE VocabSize>>
OutputShapeWitness ==
    /\ ForwardReturned /\ last.incr /\ last.tgt_len > 1
    /\ ~cfg.adaptive_softmax_cutoff
    /\ last.out = <<last.batch, 1, VocabSize>>

\* C10: no state other than the incremental-state mapping changes across
\* calls: the language-embedding parameters keep the shape they had before
\* the first call
OnlyMappingPersists ==
    /\ embed_language = cfg.embed_language
    /\ enc_embed_language = cfg.embed_language

ZeroCols(m, i) == {j \in 0 .. m.cols - 1 : m.at[<<i, j>>] = 0}
InfCols(m, i) == {j \in 0 .. m.cols - 1 : m.at[<<i, j>>] = NegInf}

\* C4: whatever calls came before, buffered_future_mask on a tensor of
\* length n returns the n x n mask with 0 at j <= i and -inf at j > i
CausalMask ==
    last.op = "buffered_future_mask" =>
        LET n == last.args.dim
        IN  /\ last.ret.rows = n /\ last.ret.cols = n
            /\ DOMAIN last.ret.at = (0 .. n - 1) \X (0 .. n - 1)
            /\ \A i \in 0 .. n - 1, j \in 0 .. n - 1 :
                  last.ret.at[<<i, j>>] = IF j <= i THEN 0 ELSE NegInf
CausalMaskWitness ==
    /\ last.op = "buffered_future_mask"
    /\ last.args.dim > 1
    /\ last.args.dim < future_mask.mask.rows
    /\ last.args.dev = "cuda"

\* C5: the causal local mask of window k on a sequence of n > 1 positions:
\* row i is 0 at exactly the positions i-k < j <= i, which are min(i+1, k),
\* and -inf elsewhere
CausalLocalMask ==
    (last.op = "local_mask" /\ last.args.causal /\ last.args.rows > 1
        /\ last.args.tgt_len \in {0, last.args.rows}) =>
        LET n == last.args.rows
            k == last.args.kernel_size
        IN  /\ last.ret.rows = n /\ last.ret.cols = n
            /\ \A i \in 0 .. n - 1 :
                  /\ ZeroCols(last.ret, i)
                        = {j \in 0 .. n - 1 : i - k < j /\ j <= i}
                  /\ Cardinality(ZeroCols(last.ret, i)) = Min(i + 1, k)
                  /\ InfCols(last.ret, i) = (0 .. n - 1) \ ZeroCols(last.ret, i)
CausalLocalMaskWitness ==
    /\ last.op = "local_mask" /\ last.args.causal
    /\ last.args.rows = MaxDim /\ last.args.tgt_len = MaxDim
    /\ last.args.kernel_size = 2
    /\ Cardinality(ZeroCols(last.ret, 0)) = 1
    /\ ZeroCols(last.ret, MaxDim - 1) = {MaxDim - 2, MaxDim - 1}

\* C6: the causal local mask of one query row over m key positions is 1 x m,
\* 0 at the last k positions and -inf at all others, for every kernel size k
SingleRowLocalMask ==
    (last.op = "local_mask" /\ last.args.causal /\ last.args.rows = 1) =>
        LET m == IF last.args.tgt_len = 0 THEN 1 ELSE last.args.tgt_len
            k == last.args.kernel_size
        IN  /\ last.ret.rows = 1 /\ last.ret.cols = m
            /\ ZeroCols(last.ret, 0) = {j \in 0 .. m - 1 : j >= m - k}
            /\ InfCols(last.ret, 0) = {j \in 0 .. m - 1 : j < m - k}

\* C6, for the kernel sizes k >= 1: there the single-row mask is as claimed
SingleRowLocalMaskPositive ==
    (last.op = "local_mask" /\ last.args.causal /\ last.args.rows = 1
        /\ last.args.kernel_size >= 1) =>
        LET m == IF last.args.tgt_len = 0 THEN 1 ELSE last.args.tgt_len
            k == last.args.kernel_size
        IN  /\ last.ret.rows = 1 /\ last.ret.cols = m
            /\ ZeroCols(last.ret, 0) = {j \in 0 .. m - 1 : j >= m - k}
            /\ InfCols(last.ret, 0) = {j \in 0 .. m - 1 : j < m - k}
SingleRowLocalMaskPositiveWitness ==
    /\ last.op = "local_mask" /\ last.args.causal /\ last.args.rows = 1
    /\ last.args.tgt_len = MaxDim /\ last.args.kernel_size = 2
    /\ ZeroCols(last.ret, 0) = {MaxDim - 2, MaxDim - 1}

\* C7: the non-causal local mask of window k on a sequence of n positions:
\* the offsets are (k+1)/2 twice for odd k, and k/2 and k/2+1 for even k;
\* entry (i,j) is 0 exactly when -diag_l < j-i < diag_u; a row whose window
\* lies inside the sequence has k zeros
SymmetricLocalMask ==
    (last.op = "local_mask" /\ ~last.args.causal /\ last.args.tgt_len = 0) =>
        LET n == last.args.rows
            k == last.args.kernel_size
            diag_u == IF k % 2 = 1 THEN (k + 1) \div 2 ELSE k \div 2
            diag_l == IF k % 2 = 1 THEN (k + 1) \div 2 ELSE k \div 2 + 1
        IN  /\ last.ret.rows = n /\ last.ret.cols = n
            /\ k = 4 => (diag_u = 2 /\ diag_l = 3)
            /\ \A i \in 0 .. n - 1 :
                  /\ ZeroCols(last.ret, i)
                        = {j \in 0 .. n - 1 : 0 - diag_l < j - i /\ j - i < diag_u}
                  /\ InfCols(last.ret, i) = (0 .. n - 1) \ ZeroCols(last.ret, i)
                  /\ (i - diag_l + 1 >= 0 /\ i + diag_u - 1 <= n - 1)
                        => Cardinality(ZeroCols(last.ret, i)) = k
SymmetricLocalMaskWitness ==
    /\ last.op = "local_mask" /\ ~last.args.causal /\ last.args.tgt_len = 0
    /\ last.args.kernel_size = 4 /\ last.args.rows = 4
    /\ ZeroCols(last.ret, 2) = {0, 1, 2, 3}
    /\ ZeroCols(last.ret, 0) = {0, 1}
\* side of the cached causal mask, 0 while there is none
CachedSide(fm) == IF fm.has THEN fm.mask.rows ELSE 0

\* C11: across buffered_future_mask calls on one decoder the cached mask never
\* shrinks: after each call its side is the larger of its side before the call
\* and the n requested, hence the largest n requested so far
CachedMaskNeverShrinks ==
    last.op = "buffered_future_mask"
      => CachedSide(future_mask) =
           Max(CachedSide(last.cached_before), last.args.dim)

\* C11 (amended): while the requests stay on the device of the cached mask its
\* side after a call is the larger of its side before and the n requested; a
\* request on another device rebuilds the mask with side n, larger or smaller
CachedMaskNeverShrinksOnDevice ==
    last.op = "buffered_future_mask"
      => /\ future_mask.has
         /\ future_mask.device = last.args.dev
         /\ CachedSide(future_mask) =
              IF /\ last.cached_before.has
                 /\ last.cached_before.device = last.args.dev
              THEN Max(CachedSide(last.cached_before), last.args.dim)
              ELSE last.args.dim

\* a call asked for fewer rows than the cached mask has and the mask was kept
CachedMaskNeverShrinksWitness ==
    /\ last.op = "buffered_future_mask"
    /\ future_mask.has
    /\ last.cached_before.has
    /\ last.cached_before.device = last.args.dev
    /\ last.args.dim < CachedSide(last.cached_before)
    /\ CachedSide(future_mask) = CachedSide(last.cached_before)

\* C12: for every combination of adaptive_softmax_cutoff and
\* share_decoder_input_output_embed, every forward uses the one projection
\* chosen at construction: adaptive softmax (the features are returned), the
\* tied embed_tokens.weight, or embed_out; embed_out exists exactly when it is
\* the projection used
OneProjection ==
    ForwardReturned =>
      /\ last.projection \in {"adaptive_softmax", "embed_tokens.weight",
                              "embed_out"}
      /\ (last.projection = "adaptive_softmax") = HasAdaptiveSoftmax(cfg)
      /\ (last.projection = "embed_out") = HasEmbedOut(cfg)
      /\ (last.projection = "embed_tokens.weight") =
           (~HasAdaptiveSoftmax(cfg) /\ cfg.share_decoder_input_output_embed)
      /\ last.out[3] = IF HasAdaptiveSoftmax(cfg) THEN EmbedDim
                       ELSE VocabSize

\* a later call of a session on a decoder with adaptive softmax and without
\* sharing: the features are returned and there is no embed_out
OneProjectionWitness ==
    /\ ForwardReturned /\ last.incr /\ last.step > 1
    /\ cfg.adaptive_softmax_cutoff
    /\ ~cfg.share_decoder_input_output_embed
    /\ last.projection = "adaptive_softmax"
    /\ ~HasEmbedOut(cfg)

\* the conditions under which C13 lets build_model return
MayShare(a) ==
    /\ a.args.share_all_embeddings
    /\ a.src_dict = a.tgt_dict
    /\ a.args.encoder_embed_dim = a.args.decoder_embed_dim
    /\ \/ a.args.decoder_embed_path \in {"None", ""}
       \/ a.args.decoder_embed_path = a.args.encoder_embed_path

\* C13: build_model returns a model only when share_all_embeddings is set, the
\* dictionaries are equal, the embedding dimensions are equal and
\* decoder_embed_path is unset or equal to encoder_embed_path; otherwise it
\* raises with no encoder and no decoder constructed; on success the encoder
\* and the decoder hold the same embedding object and
\* share_decoder_input_output_embed is true
BuildModelShares ==
    last.op = "build_model" =>
      /\ ~MayShare(last.args) =>
            /\ last.raised
            /\ IsNone(last.ret.encoder) /\ IsNone(last.ret.decoder)
      /\ ~last.raised =>
            /\ MayShare(last.args)
            /\ last.ret.encoder.embed_tokens.id =
                 last.ret.decoder.embed_tokens.id
            /\ last.ret.encoder.embed_tokens = last.ret.decoder.embed_tokens
            /\ last.ret.share_decoder_input_output_embed
            /\ last.ret.decoder.share_input_output_embed

\* a model built with decoder_embed_path equal to encoder_embed_path, and a
\* refusal are both described by last; this is the model built
BuildModelSharesWitness ==
    /\ last.op = "build_model" /\ ~last.raised
    /\ last.args.args.decoder_embed_path = "a.vec"
    /\ last.args.args.encoder_embed_path = "a.vec"
    /\ last.ret.decoder.embed_tokens.loaded = "a.vec"
    /\ ~last.args.args.share_decoder_input_output_embed

\* C14: architecture resolution accepts a configuration only if each
\* kernel-size list, one-element lists repeated, is as long as the layers of
\* its branch are many: the encoder's, the decoder's and the list forward
\* indexes by the shared layer
KernelListsMatchLayers ==
    (last.op = "base_architecture" /\ ~last.raised) =>
      /\ Len(last.ret.encoder_kernel_size_list) = last.args.encoder_layers
      /\ Len(last.ret.decoder_kernel_size_list) = last.args.decoder_layers
      /\ ~IsNone(last.ret.transformer_kernel_size_list) =>
           Len(last.ret.transformer_kernel_size_list.list)
             = last.args.decoder_transformer_layers

\* the part of C14 that the code keeps: the encoder's and the decoder's lists
EncoderDecoderListsMatchLayers ==
    (last.op = "base_architecture" /\ ~last.raised) =>
      /\ Len(last.ret.encoder_kernel_size_list) = last.args.encoder_layers
      /\ Len(last.ret.decoder_kernel_size_list) = last.args.decoder_layers

\* the call hides every later target key from every target query
HidesFuture(call) ==
    \A r \in 0 .. call.rows - 1 :
        \A key \in call.vis[r] : key[1] = "t" => key[2] <= r

\* C15: with incremental_state=None every self-attention call forward makes
\* on the target stream, in target-only, shared and legacy layers, is given a
\* mask that hides every target key j > i from query i
FullModeCausal ==
    (ForwardCalled /\ ~last.incr) =>
        \A k \in 1 .. Len(last.log) :
            last.log[k].stream = "tgt" => HidesFuture(last.log[k])

\* C15 on the shared layers alone, where it holds
FullModeCausalShared ==
    (ForwardCalled /\ ~last.incr) =>
        \A k \in 1 .. Len(last.log) :
            (last.log[k].stream = "tgt" /\ last.log[k].layer[1] = "shared")
                => HidesFuture(last.log[k])
FullModeCausalSharedWitness ==
    /\ ForwardReturned /\ ~last.incr /\ last.tgt_len = MaxTgtLen
    /\ \E k \in 1 .. Len(last.log) :
         /\ last.log[k].stream = "tgt" /\ last.log[k].layer[1] = "shared"
         /\ <<"s", 0>> \in last.log[k].vis[0]

\* the target passes of the shared layers in the log of the last forward
SharedTargetPasses ==
    {k \in 1 .. Len(last.log) :
        last.log[k].stream = "tgt" /\ last.log[k].layer[1] = "shared"}

\* the columns of a self-attention mask that stand for target keys: all of
\* them, or those right of the source keys under mixed attention
TargetColumns(m) ==
    IF IsNone(m) \/ ~cfg.mixed_attention THEN m
    ELSE Matrix(m.rows, m.cols - encoder_out.src_len,
                [p \in Index(m.rows, m.cols - encoder_out.src_len) |->
                    m.at[<<p[1], p[2] + encoder_out.src_len>>]])

\* the causal window of k keys on n key positions: for one query the last k
\* positions, for n queries the positions i-k < j <= i of query i
CausalWindow(rows, k, n) ==
    Matrix(rows, n,
           [p \in Index(rows, n) |->
               IF rows = 1
               THEN IF p[2] >= n - k THEN 0 ELSE NegInf
               ELSE IF p[1] - k < p[2] /\ p[2] <= p[1] THEN 0 ELSE NegInf])

\* the full causal mask on n positions
FullCausal(n) ==
    Matrix(n, n, [p \in Index(n, n) |-> IF p[2] > p[1] THEN NegInf ELSE 0])

\* C16: the target-side mask of shared layer i is the causal local mask of
\* window kernel_list[i] over tgt_len key positions if a kernel-size list is
\* configured; otherwise the full causal mask if incremental_state is None;
\* otherwise there is none
TargetMaskSelection ==
    ForwardCalled =>
      \A k \in SharedTargetPasses :
        TargetColumns(last.log[k].self_attn_mask) =
          IF ~IsNone(cfg.transformer_kernel_size_list)
          THEN CausalWindow(last.log[k].rows,
                 cfg.transformer_kernel_size_list.list[last.log[k].layer[2] + 1],
                 last.tgt_len)
          ELSE IF ~last.incr THEN FullCausal(last.tgt_len)
          ELSE None

\* a full-sequence call on a decoder with a kernel-size list, whose second
\* shared layer is given a window that hides an earlier target position
TargetMaskSelectionWitness ==
    /\ ForwardReturned /\ ~last.incr /\ last.tgt_len = MaxTgtLen
    /\ ~IsNone(cfg.transformer_kernel_size_list)
    /\ \E k \in SharedTargetPasses :
         /\ last.log[k].layer[2] = 1
         /\ <<"t", 0>> \notin last.log[k].vis[MaxTgtLen - 1]
         /\ <<"t", 1>> \in last.log[k].vis[MaxTgtLen - 1]

\* C17: under mixed attention a target-side mask is passed to the target pass
\* of a shared layer with src_len columns of zeros on its left: every source
\* key is visible to every target query, and on every call the mask has
\* src_len + tgt_len columns, as many as the layer holds keys
SourcePaddedMask ==
    (ForwardCalled /\ cfg.mixed_attention
       /\ (~IsNone(cfg.transformer_kernel_size_list) \/ ~last.incr)) =>
      \A k \in SharedTargetPasses :
        /\ ~IsNone(last.log[k].self_attn_mask)
        /\ last.log[k].self_attn_mask.rows = last.log[k].rows
        /\ last.log[k].self_attn_mask.cols = encoder_out.src_len + last.tgt_len
        /\ last.log[k].self_attn_mask.cols = Len(last.log[k].keys)
        /\ \A r \in 0 .. last.log[k].rows - 1 :
             \A j \in 0 .. encoder_out.src_len - 1 :
               /\ last.log[k].self_attn_mask.at[<<r, j>>] = 0
               /\ last.log[k].keys[j + 1] = <<"s", j>>

\* a later step of a session: the source keys come from the mapping and the
\* one query row sees them past the window
SourcePaddedMaskWitness ==
    /\ ForwardReturned /\ last.incr /\ last.tgt_len = MaxTgtLen
    /\ cfg.mixed_attention /\ ~last.process_source
    /\ ~IsNone(cfg.transformer_kernel_size_list)
    /\ \E k \in SharedTargetPasses :
         /\ last.log[k].self_attn_mask.cols = encoder_out.src_len + MaxTgtLen
         /\ <<"s", 0>> \in last.log[k].vis[0]
         /\ <<"t", 0>> \notin last.log[k].vis[0]

\* the layer passes of the last forward, in the order they were made
LogOrder ==
    [k \in 1 .. Len(last.log) |-> <<last.log[k].layer, last.log[k].stream>>]

\* n layers of one kind on one stream, in index order
Passes(kind, n, stream) == [i \in 1 .. n |-> <<<<kind, i - 1>>, stream>>]

\* the passes of shared layer i
SharedPasses(i) ==
    (IF last.process_source THEN << <<<<"shared", i>>, "src">> >> ELSE <<>>)
    \o << <<<<"shared", i>>, "tgt">> >>

\* the kernel-size list, if any, has an entry for every shared layer
ListCovers ==
    \/ IsNone(cfg.transformer_kernel_size_list)
    \/ Len(cfg.transformer_kernel_size_list.list) >= cfg.transformer_layers

\* the order C18 gives for interleaved=false
RECURSIVE SharedOrder(_)
SharedOrder(i) ==
    IF i >= cfg.transformer_layers THEN <<>>
    ELSE SharedPasses(i) \o SharedOrder(i + 1)
SeparateOrder ==
    Passes("target", cfg.target_layers, "tgt")
    \o (IF last.process_source THEN Passes("source", cfg.source_layers, "src")
        ELSE <<>>)
    \o SharedOrder(0)
    \o Passes("legacy", cfg.layers, "tgt")

\* the source pass and the target pass of a shared layer are given the same
\* mapping: the caller's, or one created for the layer
SameMapping ==
    \A k \in 1 .. Len(last.log) :
        (last.log[k].layer[1] = "shared" /\ last.log[k].stream = "src") =>
            /\ k < Len(last.log)
            /\ last.log[k + 1].layer = last.log[k].layer
            /\ last.log[k + 1].stream = "tgt"
            /\ last.log[k + 1].state = last.log[k].state
            /\ last.log[k].state = IF last.incr THEN "caller" ELSE "fresh"
            /\ SubSeq(last.log[k + 1].keys, 1, Len(last.log[k].keys))
                 = last.log[k].keys

\* C18: with interleaved=false one forward runs all target-only layers in
\* index order, then (if process_source) all source-only layers, then the
\* shared layers in index order, the source pass before the target pass on one
\* mapping, then the legacy layers; one inner state per pass
SeparateExecutionOrder ==
    (ForwardCalled /\ ~cfg.interleaved /\ ListCovers) =>
        /\ ~last.raised
        /\ LogOrder = SeparateOrder
        /\ SameMapping

\* C18 on the calls that return
SeparateExecutionOrderReturned ==
    (ForwardReturned /\ ~cfg.interleaved) =>
        LogOrder = SeparateOrder /\ SameMapping
SeparateExecutionOrderReturnedWitness ==
    /\ ForwardReturned /\ ~cfg.interleaved /\ last.process_source
    /\ cfg.source_layers > 0 /\ cfg.target_layers > 0 /\ cfg.layers > 0
    /\ cfg.transformer_layers = MaxShared

\* the order C19 gives for interleaved=true: in iteration i source-only layer
\* i, target-only layer i, shared layer i
RECURSIVE InterleavedOrder(_)
InterleavedOrder(i) ==
    IF i >= cfg.transformer_layers THEN <<>>
    ELSE (IF last.process_source /\ i < cfg.source_layers
          THEN << <<<<"source", i>>, "src">> >> ELSE <<>>)
         \o (IF i < cfg.target_layers
             THEN << <<<<"target", i>>, "tgt">> >> ELSE <<>>)
         \o SharedPasses(i)
         \o InterleavedOrder(i + 1)

\* C19: with interleaved=true forward runs, at each shared-layer index i,
\* source-only layer i (if there is one and process_source) and target-only
\* layer i (if there is one) before shared layer i, and no source-only or
\* target-only layer outside the loop
InterleavedExecutionOrder ==
    (ForwardCalled /\ cfg.interleaved /\ ListCovers) =>
        /\ ~last.raised
        /\ LogOrder = InterleavedOrder(0) \o Passes("legacy", cfg.layers, "tgt")

\* C19 on the calls that return
InterleavedExecutionOrderReturned ==
    (ForwardReturned /\ cfg.interleaved) =>
        LogOrder = InterleavedOrder(0) \o Passes("legacy", cfg.layers, "tgt")
InterleavedExecutionOrderReturnedWitness ==
    /\ ForwardReturned /\ cfg.interleaved /\ last.process_source
    /\ cfg.source_layers > 0 /\ cfg.target_layers > 0
    /\ cfg.transformer_layers = MaxShared
    /\ LogOrder[1] = <<<<"source", 0>>, "src">>

\* how many passes of the last forward were made on layers of one kind
Ran(kind) == Cardinality({k \in 1 .. Len(last.log) : last.log[k].layer[1] = kind})

\* no layer of the kind was run twice
AtMostOnce(kind) ==
    \A k \in 1 .. Len(last.log), q \in 1 .. Len(last.log) :
        (last.log[k].layer[1] = kind /\ last.log[k].layer = last.log[q].layer)
            => k = q

\* the layers of a kind that one forward runs, of n configured
RunsOf(n) == IF cfg.interleaved THEN Min(n, cfg.transformer_layers) ELSE n

\* C20: one forward runs each target-only layer at most once, all of them
\* when interleaved=false and min(target-only layers, shared layers) of them
\* when interleaved=true; the same holds of the source-only layers when
\* process_source is true
LayerRunCounts ==
    ForwardCalled =>
        /\ AtMostOnce("target") /\ AtMostOnce("source")
        /\ Ran("target") = RunsOf(cfg.target_layers)
        /\ last.process_source => Ran("source") = RunsOf(cfg.source_layers)

\* C20 on the calls that return
LayerRunCountsReturned ==
    ForwardReturned =>
        /\ AtMostOnce("target") /\ AtMostOnce("source")
        /\ Ran("target") = RunsOf(cfg.target_layers)
        /\ Ran("source") =
             IF last.process_source THEN RunsOf(cfg.source_layers) ELSE 0
LayerRunCountsReturnedWitness ==
    /\ ForwardReturned /\ cfg.interleaved /\ last.process_source
    /\ cfg.transformer_layers = 1
    /\ cfg.target_layers = MaxLayers + 1 /\ cfg.source_layers = MaxLayers + 1
    /\ Ran("target") = 1 /\ Ran("source") = 1

\* the passes of the last forward that are given cross-attention arguments:
\* the target passes of the shared layers and the legacy layers
CrossAttentionPasses ==
    {k \in 1 .. Len(last.log) :
        \/ last.log[k].layer[1] = "legacy"
        \/ last.log[k].layer[1] = "shared" /\ last.log[k].stream = "tgt"}

\* C21: cross-attention is routed by mixed_attention alone: without it every
\* shared-layer target pass and every legacy layer is given the encoder output
\* and its padding mask, no pass is made on the source stream and the
\* self-attention padding mask is None; with it they are given None for both
CrossAttentionRouting ==
    ForwardCalled =>
        /\ \A k \in CrossAttentionPasses :
              last.log[k].encoder_out = ~cfg.mixed_attention
        /\ ~cfg.mixed_attention =>
              /\ ~last.process_source
              /\ \A k \in 1 .. Len(last.log) : last.log[k].stream # "src"
              /\ IsNone(last.self_attn_padding_mask)
              /\ \A k \in CrossAttentionPasses :
                    IsNone(last.log[k].padding_mask)

\* a later step of a session without mixed attention on a decoder that has
\* source-only, shared and legacy layers and a padded source batch
CrossAttentionRoutingWitness ==
    /\ ForwardReturned /\ last.incr /\ last.step > 1
    /\ ~cfg.mixed_attention
    /\ cfg.source_layers > 0
    /\ cfg.transformer_layers > 0 /\ cfg.layers > 0
    /\ ~IsNone(encoder_out.encoder_padding_mask)
    /\ Cardinality(CrossAttentionPasses) = cfg.transformer_layers + cfg.layers
    /\ \A k \in CrossAttentionPasses : last.log[k].encoder_out

\* every target pass of a shared layer in the log is given the encoder output
SharedPassesCrossAttend ==
    \A k \in SharedTargetPasses : last.log[k].encoder_out

\* C22: with mixed_attention=false and interleaved=true every forward still
\* runs source-only layer i and target-only layer i at each shared index i
\* below their counts, and the shared target pass attends to the encoder
\* output
InterleavedSublayersRun ==
    (ForwardCalled /\ ~cfg.mixed_attention /\ cfg.interleaved
       /\ ListCovers) =>
        /\ Ran("source") = Min(cfg.source_layers, cfg.transformer_layers)
        /\ Ran("target") = Min(cfg.target_layers, cfg.transformer_layers)
        /\ SharedPassesCrossAttend

\* C22 (amended): with mixed_attention=false and interleaved=true
\* process_source is false and no source-only layer runs in any call; the
\* target-only layers run inside the loop, layer i right before the target
\* pass of shared layer i, which is given the encoder output; a call that
\* returns has run target-only layer i for every i below the target-only and
\* the shared layer counts
InterleavedTargetSublayersRun ==
    (ForwardCalled /\ ~cfg.mixed_attention /\ cfg.interleaved) =>
        /\ ~last.process_source
        /\ Ran("source") = 0
        /\ \A k \in 1 .. Len(last.log) : last.log[k].stream # "src"
        /\ SharedPassesCrossAttend
        /\ \A k \in SharedTargetPasses :
              last.log[k].layer[2] < cfg.target_layers =>
                /\ k > 1
                /\ last.log[k - 1].layer = <<"target", last.log[k].layer[2]>>
        /\ \A k \in 1 .. Len(last.log) :
              last.log[k].layer[1] = "target" =>
                /\ last.log[k].layer[2] < cfg.transformer_layers
                /\ k < Len(last.log) =>
                      last.log[k + 1].layer = <<"shared", last.log[k].layer[2]>>
        /\ ~last.raised =>
              /\ Ran("target") = Min(cfg.target_layers, cfg.transformer_layers)
              /\ LogOrder = InterleavedOrder(0)
                              \o Passes("legacy", cfg.layers, "tgt")

\* a call on a decoder with source-only and target-only layers: the
\* target-only layer has run, the source-only layer has not
InterleavedTargetSublayersRunWitness ==
    /\ ForwardReturned /\ ~cfg.mixed_attention /\ cfg.interleaved
    /\ cfg.source_layers > 0 /\ cfg.target_layers > 0
    /\ cfg.transformer_layers = MaxShared
    /\ Ran("source") = 0 /\ Ran("target") = cfg.target_layers
    /\ LogOrder[1] = <<<<"target", 0>>, "tgt">>

\* C23: a kernel-size list that architecture resolution leaves in
\* decoder_transformer_kernel_size_list is the list of the decoder built from
\* the resolved args: a decoder is built, and its list is not None and equal
\* to it
ResolvedKernelListUsed ==
    (last.op = "architecture"
       /\ ~IsNone(last.ret.args.decoder_transformer_kernel_size_list)) =>
        /\ ~last.raised
        /\ last.ret.decoder.transformer_kernel_size_list
             = last.ret.args.decoder_transformer_kernel_size_list

\* what holds instead: the constructor raises whenever the resolved
\* language_embeddings is true, as it is unless args came with it false; the
\* list of a decoder that is built is the attribute
\* transformer_kernel_size_list of args if there is one, and None otherwise
DecoderReadsOtherAttribute ==
    last.op = "architecture" =>
        /\ last.raised = last.ret.args.language_embeddings
        /\ last.raised = IsNone(last.ret.decoder)
        /\ ~last.raised =>
             last.ret.decoder.transformer_kernel_size_list =
                IF last.args.transformer_kernel_size_list.set
                THEN last.args.transformer_kernel_size_list.value
                ELSE None
DecoderReadsOtherAttributeWitness ==
    /\ last.op = "architecture" /\ ~last.raised
    /\ last.args.name = "local_attention_iwslt_de_en"
    /\ ~last.args.decoder_transformer_kernel_size_list.set
    /\ ~last.args.transformer_kernel_size_list.set
    /\ last.ret.args.decoder_transformer_kernel_size_list = LocalAttentionDefault
    /\ IsNone(last.ret.decoder.transformer_kernel_size_list)

====
